---- MODULE Spec2Model ----
(***************************************************************************)
(* Model of the library-recommendation-system client:                      *)
(*   - src/src/services/api.ts: the stateless API wrappers around fetch;   *)
(*   - src/src/contexts/AuthContext.tsx: the authentication state holder   *)
(*     mirroring the identity SDK's session.                               *)
(*                                                                         *)
(* The API wrappers share no state, so one call is one action; the         *)
(* outcomes of the SDK calls and of fetch are inputs drawn with \E and     *)
(* kept in the state next to what the call did (the SDK/fetch events in    *)
(* order, the requests issued, the value returned or the error thrown).    *)
(* The holder's operations suspend at each await, so each await is a step: *)
(* the SDK settles a pending promise, and the continuation runs later.     *)
(*                                                                         *)
(* Encodings: a URL and an error message are the sequence of the parts of  *)
(* their template string; other template strings are built with \o; JSON   *)
(* values are tagged records; confidence scores are in tenths (0.8 is 8);  *)
(* createdAt timestamps are left out of the session user.                  *)
(***************************************************************************)
EXTENDS Integers, Sequences, FiniteSets, TLC

VARIABLES
    \* ---- the last API wrapper call (api.ts) ----
    fn,           \* name of the wrapper called
    args,         \* its arguments
    currentUser,  \* outcome of getCurrentUser() seen by the call
    session,      \* outcome of fetchAuthSession() seen by the call
    response,     \* outcome of fetch() seen by the call
    trace,        \* SDK/fetch calls made by the wrapper, in order
    requests,     \* the HTTP requests issued by the wrapper, in order
    result,       \* what the caller gets: a returned value or a thrown error
    \* ---- the authentication holder (AuthContext.tsx) ----
    sdkSession,   \* the identity SDK's signed-in account, or NoSession
    user,         \* useState user
    isLoading,    \* useState isLoading
    ops,          \* the holder's operations in flight
    lastDone      \* the operation that finished last, and how its promise settled

apiVars  == <<fn, args, currentUser, session, response, trace, requests, result>>
authVars == <<sdkSession, user, isLoading, ops, lastDone>>
vars     == <<fn, args, currentUser, session, response, trace, requests, result,
              sdkSession, user, isLoading, ops, lastDone>>

----------------------------------------------------------------------------
(* Bounds of the model *)

\* longest recommendations array in a response body
MaxRecs == 2
\* operations of the holder that can be in flight together
MaxOps == 2

----------------------------------------------------------------------------
(* Values *)

API_BASE_URL == "https://api.example"

Ids      == {"id1", "id2"}
BookIds  == {"bk1"}
UserIds  == {"u1", "u2"}
Tokens   == {"tokA", "tokB"}
Queries  == {"q"}
Statuses == {200, 201, 404, 500}

\* JSON values
JUndefined  == [t |-> "undefined"]
JNull       == [t |-> "null"]
JArr(items) == [t |-> "array", items |-> items]
JObj(f)     == [t |-> "object", f |-> f]
NotJSON     == [t |-> "invalid"]

BookPayloads == {[title |-> "T", author |-> "A"]}
ListPayloads == {[name |-> "L", userId |-> "u1", bookIds |-> <<>>]}

\* one element of the Lambda's { recommendations: [...] }
Recs == [title : {"T"}, author : {"A"}, reason : {"", "why"}, confidence : {0, 9}]

RECURSIVE SeqsUpTo(_, _)
SeqsUpTo(S, n) ==
    IF n = 0 THEN {<<>>}
    ELSE LET shorter == SeqsUpTo(S, n - 1)
         IN shorter \cup {Append(s, x) : s \in {q \in shorter : Len(q) = n - 1}, x \in S}

\* response bodies: the raw text and what response.json() makes of it
Bodies ==
    {[text |-> "Internal Server Error", json |-> NotJSON],
     [text |-> "null", json |-> JNull],
     [text |-> "[]", json |-> JArr(<<>>)],
     [text |-> "[book]", json |-> JArr(<<JObj([id |-> "bk1", title |-> "T"])>>)],
     [text |-> "{list}", json |-> JObj([id |-> "id1", userId |-> "u1", bookIds |-> <<"bk1">>])],
     [text |-> "{}", json |-> JObj([message |-> "m"])]}
    \cup {[text |-> "{recommendations}", json |-> JObj([recommendations |-> rs])] :
             rs \in SeqsUpTo(Recs, MaxRecs)}

NoArgs == [id |-> "-", bookId |-> "-", payload |-> JUndefined, query |-> "-"]

\* outcomes of the identity SDK's calls and of fetch
UserUnused    == [state |-> "unused", userId |-> "-"]
UserOutcomes  == {[state |-> "failed", userId |-> "-"]}
                 \cup {[state |-> "ok", userId |-> u] : u \in UserIds}
SessionUnused == [state |-> "unused", token |-> "-"]
SessionOutcomes ==
    {[state |-> "failed", token |-> "-"], [state |-> "noToken", token |-> "-"]}
    \cup {[state |-> "token", token |-> t] : t \in Tokens}
NoResponse    == [state |-> "none", status |-> 0, text |-> "-", json |-> NotJSON]
FetchOutcomes ==
    {[state |-> "networkError", status |-> 0, text |-> "-", json |-> NotJSON]}
    \cup {[state |-> "received", status |-> s, text |-> b.text, json |-> b.json] :
             s \in Statuses, b \in Bodies}

\* response.ok
ok(resp) == resp.status >= 200 /\ resp.status <= 299

\* results of a call
NoResult      == [kind |-> "none", value |-> JUndefined, error |-> [name |-> "-", message |-> <<>>]]
Returned(v)   == [kind |-> "returned", value |-> v, error |-> [name |-> "-", message |-> <<>>]]
Threw(e)      == [kind |-> "threw", value |-> JUndefined, error |-> e]
Error(parts)  == [name |-> "Error", message |-> parts]
\* fetch() rejecting, a property read of null, response.json() rejecting,
\* getCurrentUser() rejecting
TypeError     == [name |-> "TypeError", message |-> <<"Failed to fetch">>]
NullTypeError == [name |-> "TypeError", message |-> <<"Cannot read properties of null">>]
SyntaxError   == [name |-> "SyntaxError", message |-> <<"Unexpected token">>]
AuthError     == [name |-> "UserUnAuthenticatedException", message |-> <<"User needs to be authenticated">>]

\* the events of trace
EvUser    == "getCurrentUser"
EvSession == "fetchAuthSession"
EvFetch   == "fetch"

\* response.json(): the parsed body, or a rejection when the text is no JSON
json(resp) == IF resp.json = NotJSON THEN Threw(SyntaxError) ELSE Returned(resp.json)

\* JSON.stringify
stringify(v) == [t |-> "string", of |-> v]

Request(method, url, headers, body) ==
    [method |-> method, url |-> url, headers |-> headers, body |-> body]

----------------------------------------------------------------------------
(* api.ts *)

\* getAuthHeaders sending the token without the Bearer scheme
getAuthHeaders_rawToken(sess) ==
    IF sess.state = "token"
    THEN ("Authorization" :> sess.token) @@ ("Content-Type" :> "application/json")
    ELSE ("Content-Type" :> "application/json")

getAuthHeaders(sess) ==
    IF sess.state = "token"
    THEN ("Authorization" :> ("Bearer " \o sess.token)) @@ ("Content-Type" :> "application/json")
    ELSE ("Content-Type" :> "application/json")

\* what every wrapper leaves behind
Called(name, a, cu, sess, resp, tr, reqs, res) ==
    /\ fn' = name
    /\ args' = a
    /\ currentUser' = cu
    /\ session' = sess
    /\ response' = resp
    /\ trace' = tr
    /\ requests' = reqs
    /\ result' = res
    /\ UNCHANGED authVars

\* a wrapper is called when the previous call's result has been taken
Callable == fn = "none"

getBooks_request(headers) ==
    Request("GET", <<API_BASE_URL, "/books">>, headers, JUndefined)

\* getBooks without the status check
getBooks_settle_unchecked(resp) == json(resp)

getBooks_settle(resp) ==
    IF ~ok(resp) THEN Threw(Error(<<"Failed to fetch books">>))
    ELSE json(resp)

getBooks ==
    /\ Callable
    /\ \E sess \in SessionOutcomes, resp \in FetchOutcomes :
        Called("getBooks", NoArgs, UserUnused, sess, resp,
               <<EvSession, EvFetch>>,
               <<getBooks_request(getAuthHeaders(sess))>>,
               IF resp.state = "networkError" THEN Threw(TypeError)
               ELSE getBooks_settle(resp))

getBook_request(id, headers) ==
    Request("GET", <<API_BASE_URL, "/books/", id>>, headers, JUndefined)

getBook_settle(resp) ==
    IF resp.status = 404 THEN Returned(JNull)
    ELSE IF ~ok(resp) THEN Threw(Error(<<"Failed to fetch book">>))
    ELSE json(resp)

getBook ==
    /\ Callable
    /\ \E id \in Ids, sess \in SessionOutcomes, resp \in FetchOutcomes :
        Called("getBook", [NoArgs EXCEPT !.id = id], UserUnused, sess, resp,
               <<EvSession, EvFetch>>,
               <<getBook_request(id, getAuthHeaders(sess))>>,
               IF resp.state = "networkError" THEN Threw(TypeError)
               ELSE getBook_settle(resp))

createBook_request(book, headers) ==
    Request("POST", <<API_BASE_URL, "/books">>, headers, stringify(book))

createBook_settle(resp) ==
    IF ~ok(resp) THEN Threw(Error(<<"Failed to create book">>))
    ELSE json(resp)

\* createBook fetching a second time when the first fetch is rejected
createBook_retry ==
    /\ Callable
    /\ \E book \in BookPayloads, sess \in SessionOutcomes, resp \in FetchOutcomes :
        LET req == createBook_request(book, getAuthHeaders(sess)) IN
        Called("createBook", [NoArgs EXCEPT !.payload = book], UserUnused, sess, resp,
               IF resp.state = "networkError" THEN <<EvSession, EvFetch, EvFetch>>
               ELSE <<EvSession, EvFetch>>,
               IF resp.state = "networkError" THEN <<req, req>> ELSE <<req>>,
               IF resp.state = "networkError" THEN Threw(TypeError)
               ELSE createBook_settle(resp))

createBook ==
    /\ Callable
    /\ \E book \in BookPayloads, sess \in SessionOutcomes, resp \in FetchOutcomes :
        Called("createBook", [NoArgs EXCEPT !.payload = book], UserUnused, sess, resp,
               <<EvSession, EvFetch>>,
               <<createBook_request(book, getAuthHeaders(sess))>>,
               IF resp.state = "networkError" THEN Threw(TypeError)
               ELSE createBook_settle(resp))

\* updateBook sent as a POST
updateBook_request_post(id, book, headers) ==
    Request("POST", <<API_BASE_URL, "/books/", id>>, headers, stringify(book))

updateBook_request(id, book, headers) ==
    Request("PUT", <<API_BASE_URL, "/books/", id>>, headers, stringify(book))

updateBook_settle(resp) ==
    IF ~ok(resp) THEN Threw(Error(<<"Failed to update book">>))
    ELSE json(resp)

updateBook ==
    /\ Callable
    /\ \E id \in Ids, book \in BookPayloads, sess \in SessionOutcomes, resp \in FetchOutcomes :
        Called("updateBook", [NoArgs EXCEPT !.id = id, !.payload = book],
               UserUnused, sess, resp,
               <<EvSession, EvFetch>>,
               <<updateBook_request(id, book, getAuthHeaders(sess))>>,
               IF resp.state = "networkError" THEN Threw(TypeError)
               ELSE updateBook_settle(resp))

deleteBook_request(id, headers) ==
    Request("DELETE", <<API_BASE_URL, "/books/", id>>, headers, JUndefined)

deleteBook_settle(resp) ==
    IF ~ok(resp) THEN Threw(Error(<<"Failed to delete book">>))
    ELSE Returned(JUndefined)

deleteBook ==
    /\ Callable
    /\ \E id \in Ids, sess \in SessionOutcomes, resp \in FetchOutcomes :
        Called("deleteBook", [NoArgs EXCEPT !.id = id], UserUnused, sess, resp,
               <<EvSession, EvFetch>>,
               <<deleteBook_request(id, getAuthHeaders(sess))>>,
               IF resp.state = "networkError" THEN Threw(TypeError)
               ELSE deleteBook_settle(resp))

\* rec.confidence || 0.8, in tenths
DefaultConfidence == 8

\* data.recommendations || []
recommendationsOf(data) ==
    IF data.t = "object" /\ "recommendations" \in DOMAIN data.f
    THEN data.f.recommendations
    ELSE <<>>

\* the map numbering the recommendations from 1
formattedRecommendations_fromOne(recommendations) ==
    [i \in 1..Len(recommendations) |->
        LET rec == recommendations[i]
            index == ToString(i)
        IN [id |-> "bedrock-" \o index,
            bookId |-> "unknown-" \o index,
            reason |-> IF rec.reason # "" THEN rec.reason
                       ELSE rec.title \o " by " \o rec.author \o " - " \o rec.reason,
            confidence |-> IF rec.confidence # 0 THEN rec.confidence
                           ELSE DefaultConfidence,
            title |-> rec.title,
            author |-> rec.author]]

\* recommendations.map((rec, index) => ({...})), index counted from 0
formattedRecommendations(recommendations) ==
    [i \in 1..Len(recommendations) |->
        LET rec == recommendations[i]
            index == ToString(i - 1)
        IN [id |-> "bedrock-" \o index,
            bookId |-> "unknown-" \o index,
            reason |-> IF rec.reason # "" THEN rec.reason
                       ELSE rec.title \o " by " \o rec.author \o " - " \o rec.reason,
            confidence |-> IF rec.confidence # 0 THEN rec.confidence
                           ELSE DefaultConfidence,
            title |-> rec.title,
            author |-> rec.author]]

getRecommendations_request(query, headers) ==
    Request("POST", <<API_BASE_URL, "/recommendations">>, headers,
            stringify([query |-> query]))

getRecommendations_settle(resp) ==
    IF ~ok(resp)
    THEN Threw(Error(<<"Failed to get recommendations: ", ToString(resp.status),
                       " - ", resp.text>>))
    ELSE IF json(resp).kind = "threw" THEN json(resp)
    ELSE IF json(resp).value = JNull THEN Threw(NullTypeError)
    ELSE Returned(JArr(formattedRecommendations(recommendationsOf(json(resp).value))))

getRecommendations ==
    /\ Callable
    /\ \E query \in Queries, sess \in SessionOutcomes, resp \in FetchOutcomes :
        Called("getRecommendations", [NoArgs EXCEPT !.query = query],
               UserUnused, sess, resp,
               <<EvSession, EvFetch>>,
               <<getRecommendations_request(query, getAuthHeaders(sess))>>,
               IF resp.state = "networkError" THEN Threw(TypeError)
               ELSE getRecommendations_settle(resp))

\* let userId = 'test-user-123'; replaced by the SDK user's id when there is one
getReadingLists_userId(cu) ==
    IF cu.state = "ok" THEN cu.userId ELSE "test-user-123"

getReadingLists_request(userId, headers) ==
    Request("GET", <<API_BASE_URL, "/reading-lists", "?userId=", userId>>, headers,
            JUndefined)

\* getReadingLists throwing a fixed message, as getBooks does
getReadingLists_settle_fixed(resp) ==
    IF ~ok(resp) THEN Threw(Error(<<"Failed to fetch reading lists">>))
    ELSE json(resp)

getReadingLists_settle(resp) ==
    IF ~ok(resp)
    THEN Threw(Error(<<"Failed to fetch reading lists: ", ToString(resp.status),
                       " - ", resp.text>>))
    ELSE json(resp)

getReadingLists ==
    /\ Callable
    /\ \E sess \in SessionOutcomes, cu \in UserOutcomes, resp \in FetchOutcomes :
        Called("getReadingLists", NoArgs, cu, sess, resp,
               <<EvSession, EvUser, EvFetch>>,
               <<getReadingLists_request(getReadingLists_userId(cu), getAuthHeaders(sess))>>,
               IF resp.state = "networkError" THEN Threw(TypeError)
               ELSE getReadingLists_settle(resp))

createReadingList_request(list, headers) ==
    Request("POST", <<API_BASE_URL, "/reading-lists">>, headers, stringify(list))

createReadingList_settle(resp) ==
    IF ~ok(resp) THEN Threw(Error(<<"Failed to create reading list">>))
    ELSE json(resp)

createReadingList ==
    /\ Callable
    /\ \E list \in ListPayloads, sess \in SessionOutcomes, resp \in FetchOutcomes :
        Called("createReadingList", [NoArgs EXCEPT !.payload = list],
               UserUnused, sess, resp,
               <<EvSession, EvFetch>>,
               <<createReadingList_request(list, getAuthHeaders(sess))>>,
               IF resp.state = "networkError" THEN Threw(TypeError)
               ELSE createReadingList_settle(resp))

updateReadingList_request(id, list, headers) ==
    Request("PUT", <<API_BASE_URL, "/reading-lists/", id>>, headers, stringify(list))

updateReadingList_settle(resp) ==
    IF ~ok(resp) THEN Threw(Error(<<"Failed to update reading list">>))
    ELSE json(resp)

updateReadingList ==
    /\ Callable
    /\ \E id \in Ids, list \in ListPayloads, sess \in SessionOutcomes, resp \in FetchOutcomes :
        Called("updateReadingList", [NoArgs EXCEPT !.id = id, !.payload = list],
               UserUnused, sess, resp,
               <<EvSession, EvFetch>>,
               <<updateReadingList_request(id, list, getAuthHeaders(sess))>>,
               IF resp.state = "networkError" THEN Threw(TypeError)
               ELSE updateReadingList_settle(resp))

deleteReadingList_request(id, userId, headers) ==
    Request("DELETE", <<API_BASE_URL, "/reading-lists/", id, "?userId=", userId>>,
            headers, JUndefined)

deleteReadingList_settle(resp) ==
    IF ~ok(resp)
    THEN Threw(Error(<<"Failed to delete reading list: ", ToString(resp.status),
                       " - ", resp.text>>))
    ELSE Returned(JUndefined)

\* deleteReadingList falling back to a fixed user id, as getReadingLists does
deleteReadingList_fallback ==
    /\ Callable
    /\ \E id \in Ids, cu \in UserOutcomes, sess \in SessionOutcomes, resp \in FetchOutcomes :
        Called("deleteReadingList", [NoArgs EXCEPT !.id = id], cu, sess, resp,
               <<EvUser, EvSession, EvFetch>>,
               <<deleteReadingList_request(id, getReadingLists_userId(cu),
                                           getAuthHeaders(sess))>>,
               IF resp.state = "networkError" THEN Threw(TypeError)
               ELSE deleteReadingList_settle(resp))

deleteReadingList ==
    /\ Callable
    /\ \E id \in Ids, cu \in UserOutcomes :
        \/ /\ cu.state = "failed"
           /\ Called("deleteReadingList", [NoArgs EXCEPT !.id = id], cu,
                     SessionUnused, NoResponse, <<EvUser>>, <<>>, Threw(AuthError))
        \/ /\ cu.state = "ok"
           /\ \E sess \in SessionOutcomes, resp \in FetchOutcomes :
                Called("deleteReadingList", [NoArgs EXCEPT !.id = id], cu, sess, resp,
                       <<EvUser, EvSession, EvFetch>>,
                       <<deleteReadingList_request(id, cu.userId, getAuthHeaders(sess))>>,
                       IF resp.state = "networkError" THEN Threw(TypeError)
                       ELSE deleteReadingList_settle(resp))

addBookToReadingList_request(listId, bookId, userId, headers) ==
    Request("PUT", <<API_BASE_URL, "/reading-lists/", listId>>, headers,
            stringify([userId |-> userId,
                       bookIds |-> [action |-> "add", bookId |-> bookId]]))

addBookToReadingList_settle(resp) ==
    IF ~ok(resp)
    THEN Threw(Error(<<"Failed to add book to reading list: ", ToString(resp.status),
                       " - ", resp.text>>))
    ELSE json(resp)

addBookToReadingList ==
    /\ Callable
    /\ \E listId \in Ids, bookId \in BookIds, cu \in UserOutcomes :
        LET a == [NoArgs EXCEPT !.id = listId, !.bookId = bookId] IN
        \/ /\ cu.state = "failed"
           /\ Called("addBookToReadingList", a, cu,
                     SessionUnused, NoResponse, <<EvUser>>, <<>>, Threw(AuthError))
        \/ /\ cu.state = "ok"
           /\ \E sess \in SessionOutcomes, resp \in FetchOutcomes :
                Called("addBookToReadingList", a, cu, sess, resp,
                       <<EvUser, EvSession, EvFetch>>,
                       <<addBookToReadingList_request(listId, bookId, cu.userId,
                                                      getAuthHeaders(sess))>>,
                       IF resp.state = "networkError" THEN Threw(TypeError)
                       ELSE addBookToReadingList_settle(resp))

removeBookFromReadingList_request(listId, bookId, userId, headers) ==
    Request("PUT", <<API_BASE_URL, "/reading-lists/", listId>>, headers,
            stringify([userId |-> userId,
                       bookIds |-> [action |-> "remove", bookId |-> bookId]]))

removeBookFromReadingList_settle(resp) ==
    IF ~ok(resp)
    THEN Threw(Error(<<"Failed to remove book from reading list: ", ToString(resp.status),
                       " - ", resp.text>>))
    ELSE json(resp)

removeBookFromReadingList ==
    /\ Callable
    /\ \E listId \in Ids, bookId \in BookIds, cu \in UserOutcomes :
        LET a == [NoArgs EXCEPT !.id = listId, !.bookId = bookId] IN
        \/ /\ cu.state = "failed"
           /\ Called("removeBookFromReadingList", a, cu,
                     SessionUnused, NoResponse, <<EvUser>>, <<>>, Threw(AuthError))
        \/ /\ cu.state = "ok"
           /\ \E sess \in SessionOutcomes, resp \in FetchOutcomes :
                Called("removeBookFromReadingList", a, cu, sess, resp,
                       <<EvUser, EvSession, EvFetch>>,
                       <<removeBookFromReadingList_request(listId, bookId, cu.userId,
                                                           getAuthHeaders(sess))>>,
                       IF resp.state = "networkError" THEN Threw(TypeError)
                       ELSE removeBookFromReadingList_settle(resp))

\* the caller takes the result; the wrappers keep nothing between calls
TakeResult ==
    /\ fn # "none"
    /\ fn' = "none"
    /\ args' = NoArgs
    /\ currentUser' = UserUnused
    /\ session' = SessionUnused
    /\ response' = NoResponse
    /\ trace' = <<>>
    /\ requests' = <<>>
    /\ result' = NoResult
    /\ UNCHANGED authVars

----------------------------------------------------------------------------
(* AuthContext.tsx *)

Emails == {"ann@x", "bob@x"}
Names  == {"N"}

NoSession == "none"

\* what the SDK's getCurrentUser() resolves to for a signed-in account
sdkUserOf(account) ==
    [userId |-> "sub-" \o account, username |-> account, loginId |-> account]

\* useState<User | null>
Null == [null |-> TRUE]

\* the operations of the holder; an operation in flight is suspended at the
\* await of the SDK call named by pc, whose promise is pending or settled
Waiting     == [state |-> "waiting", isSignedIn |-> FALSE, account |-> "-"]
Rejected    == [state |-> "rejected", isSignedIn |-> FALSE, account |-> "-"]
Resolved    == [state |-> "resolved", isSignedIn |-> FALSE, account |-> "-"]
SignedIn    == [state |-> "resolved", isSignedIn |-> TRUE, account |-> "-"]
ResolvedUser(account) == [state |-> "resolved", isSignedIn |-> FALSE, account |-> account]

IdleOp == [kind |-> "idle", pc |-> "-", pending |-> Waiting, email |-> "-"]
Op(kind, pc, email) == [kind |-> kind, pc |-> pc, pending |-> Waiting, email |-> email]

Slots == 1..MaxOps

AwaitingSDK(i, kind, pc) ==
    /\ ops[i].kind = kind
    /\ ops[i].pc = pc
    /\ ops[i].pending.state = "waiting"

Resumable(i, kind, pc) ==
    /\ ops[i].kind = kind
    /\ ops[i].pc = pc
    /\ ops[i].pending.state # "waiting"

NoneDone == [kind |-> "none", sdkFailed |-> FALSE, settled |-> "-"]
Done(kind, sdkFailed, settled) ==
    [kind |-> kind, sdkFailed |-> sdkFailed, settled |-> settled]

\* the operation in slot i returns: its promise settles and the slot is free
Finish(i, sdkFailed, settled) ==
    /\ lastDone' = Done(ops[i].kind, sdkFailed, settled)
    /\ ops' = [ops EXCEPT ![i] = IdleOp]

\* ---- the identity SDK (aws-amplify/auth) settling a pending call ----

\* getCurrentUser(): the signed-in user, or a rejection when nobody is signed in
SDK_getCurrentUser(i) ==
    /\ \/ AwaitingSDK(i, "checkAuth", "getCurrentUser")
       \/ AwaitingSDK(i, "login", "getCurrentUser")
    /\ ops' = [ops EXCEPT ![i].pending =
                  IF sdkSession # NoSession THEN ResolvedUser(sdkSession) ELSE Rejected]
    /\ UNCHANGED <<sdkSession, user, isLoading, lastDone>>
    /\ UNCHANGED apiVars

\* signIn(): rejects (bad credentials, or somebody is signed in already), or
\* resolves with isSignedIn, or resolves with a further sign-in step pending
SDK_signIn(i) ==
    /\ AwaitingSDK(i, "login", "signIn")
    /\ \/ /\ ops' = [ops EXCEPT ![i].pending = Rejected]
          /\ UNCHANGED sdkSession
       \/ /\ sdkSession = NoSession
          /\ ops' = [ops EXCEPT ![i].pending = SignedIn]
          /\ sdkSession' = ops[i].email
       \/ /\ sdkSession = NoSession
          /\ ops' = [ops EXCEPT ![i].pending = Resolved]
          /\ UNCHANGED sdkSession
    /\ UNCHANGED <<user, isLoading, lastDone>>
    /\ UNCHANGED apiVars

\* signOut(): ends the session, or rejects and leaves it
SDK_signOut(i) ==
    /\ AwaitingSDK(i, "logout", "signOut")
    /\ \/ /\ ops' = [ops EXCEPT ![i].pending = Resolved]
          /\ sdkSession' = NoSession
       \/ /\ ops' = [ops EXCEPT ![i].pending = Rejected]
          /\ UNCHANGED sdkSession
    /\ UNCHANGED <<user, isLoading, lastDone>>
    /\ UNCHANGED apiVars

\* signUp(): registers the account or rejects; nobody is signed in by it
SDK_signUp(i) ==
    /\ AwaitingSDK(i, "signup", "signUp")
    /\ \E outcome \in {Resolved, Rejected} :
          ops' = [ops EXCEPT ![i].pending = outcome]
    /\ UNCHANGED <<sdkSession, user, isLoading, lastDone>>
    /\ UNCHANGED apiVars

\* ---- the holder ----

\* checkAuth's setUser({...}) from the SDK user
checkAuth_user(u) ==
    [id |-> u.userId,
     email |-> IF u.loginId # "" THEN u.loginId ELSE "",
     name |-> u.username,
     role |-> "user"]

\* the rest of checkAuth once getCurrentUser() has settled
checkAuth_resume(i) ==
    /\ Resumable(i, "checkAuth", "getCurrentUser")
    /\ user' = IF ops[i].pending.state = "resolved"
               THEN checkAuth_user(sdkUserOf(ops[i].pending.account))
               ELSE Null
    /\ isLoading' = FALSE
    /\ Finish(i, ops[i].pending.state = "rejected", "resolved")
    /\ UNCHANGED sdkSession
    /\ UNCHANGED apiVars

\* login's setUser({...}) from the SDK user and the email argument
login_user(u, email) ==
    [id |-> u.userId, email |-> email, name |-> u.username, role |-> "user"]

\* login(email, password) up to its first await
login(i, email) ==
    /\ ops[i] = IdleOp
    /\ isLoading' = TRUE
    /\ ops' = [ops EXCEPT ![i] = Op("login", "signIn", email)]
    /\ UNCHANGED <<sdkSession, user, lastDone>>
    /\ UNCHANGED apiVars

\* login once signIn() has settled
login_afterSignIn(i) ==
    /\ Resumable(i, "login", "signIn")
    /\ IF ops[i].pending.state = "rejected"
       THEN /\ isLoading' = FALSE
            /\ Finish(i, TRUE, "rejected")
       ELSE IF ops[i].pending.isSignedIn
       THEN /\ ops' = [ops EXCEPT ![i].pc = "getCurrentUser", ![i].pending = Waiting]
            /\ UNCHANGED <<isLoading, lastDone>>
       ELSE /\ isLoading' = FALSE
            /\ Finish(i, FALSE, "resolved")
    /\ UNCHANGED <<sdkSession, user>>
    /\ UNCHANGED apiVars

\* login once getCurrentUser() has settled
login_afterGetCurrentUser(i) ==
    /\ Resumable(i, "login", "getCurrentUser")
    /\ IF ops[i].pending.state = "rejected"
       THEN /\ UNCHANGED user
            /\ Finish(i, TRUE, "rejected")
       ELSE /\ user' = login_user(sdkUserOf(ops[i].pending.account), ops[i].email)
            /\ Finish(i, FALSE, "resolved")
    /\ isLoading' = FALSE
    /\ UNCHANGED sdkSession
    /\ UNCHANGED apiVars

\* logout() up to its await
logout(i) ==
    /\ ops[i] = IdleOp
    /\ isLoading' = TRUE
    /\ ops' = [ops EXCEPT ![i] = Op("logout", "signOut", "-")]
    /\ UNCHANGED <<sdkSession, user, lastDone>>
    /\ UNCHANGED apiVars

\* how logout's promise settles when signOut() rejected: the catch logs only
logout_settledOnFailure == "resolved"

\* logout once signOut() has settled
logout_resume(i) ==
    /\ Resumable(i, "logout", "signOut")
    /\ IF ops[i].pending.state = "rejected"
       THEN /\ UNCHANGED user
            /\ Finish(i, TRUE, logout_settledOnFailure)
       ELSE /\ user' = Null
            /\ Finish(i, FALSE, "resolved")
    /\ isLoading' = FALSE
    /\ UNCHANGED sdkSession
    /\ UNCHANGED apiVars

\* signup(email, password, name) up to its await
signup(i, email, name) ==
    /\ ops[i] = IdleOp
    /\ isLoading' = TRUE
    /\ ops' = [ops EXCEPT ![i] = Op("signup", "signUp", email)]
    /\ UNCHANGED <<sdkSession, user, lastDone>>
    /\ UNCHANGED apiVars

\* signup once signUp() has settled
signup_resume(i) ==
    /\ Resumable(i, "signup", "signUp")
    /\ IF ops[i].pending.state = "rejected"
       THEN Finish(i, TRUE, "rejected")
       ELSE Finish(i, FALSE, "resolved")
    /\ isLoading' = FALSE
    /\ UNCHANGED <<sdkSession, user>>
    /\ UNCHANGED apiVars

\* an operation of the holder is in flight
InFlight == \E i \in Slots : ops[i] # IdleOp

----------------------------------------------------------------------------
(* Specifications *)

ApiInit ==
    /\ fn = "none"
    /\ args = NoArgs
    /\ currentUser = UserUnused
    /\ session = SessionUnused
    /\ response = NoResponse
    /\ trace = <<>>
    /\ requests = <<>>
    /\ result = NoResult

\* the holder before it is mounted
AuthIdle ==
    /\ sdkSession = NoSession
    /\ user = Null
    /\ isLoading = TRUE
    /\ ops = [i \in Slots |-> IdleOp]
    /\ lastDone = NoneDone

\* the holder mounted: useState(null), useState(true), and the effect has
\* called checkAuth, which awaits getCurrentUser(); the SDK may hold a session
\* kept from an earlier visit
AuthInit ==
    /\ sdkSession \in {NoSession} \cup Emails
    /\ user = Null
    /\ isLoading = TRUE
    /\ ops = [i \in Slots |-> IF i = 1 THEN Op("checkAuth", "getCurrentUser", "-")
                              ELSE IdleOp]
    /\ lastDone = NoneDone

Init == ApiInit /\ AuthIdle

Next ==
    \/ getBooks
    \/ getBook
    \/ createBook
    \/ updateBook
    \/ deleteBook
    \/ getRecommendations
    \/ getReadingLists
    \/ createReadingList
    \/ updateReadingList
    \/ deleteReadingList
    \/ addBookToReadingList
    \/ removeBookFromReadingList
    \/ TakeResult

\* the API wrappers
Spec == Init /\ [][Next]_vars

InitAuth == ApiInit /\ AuthInit

NextAuth ==
    \/ \E i \in Slots : SDK_getCurrentUser(i)
    \/ \E i \in Slots : SDK_signIn(i)
    \/ \E i \in Slots : SDK_signOut(i)
    \/ \E i \in Slots : SDK_signUp(i)
    \/ \E i \in Slots : checkAuth_resume(i)
    \/ \E i \in Slots, email \in Emails : login(i, email)
    \/ \E i \in Slots : login_afterSignIn(i)
    \/ \E i \in Slots : login_afterGetCurrentUser(i)
    \/ \E i \in Slots : logout(i)
    \/ \E i \in Slots : logout_resume(i)
    \/ \E i \in Slots, email \in Emails, name \in Names : signup(i, email, name)
    \/ \E i \in Slots : signup_resume(i)

\* the authentication holder
SpecAuth == InitAuth /\ [][NextAuth]_vars

----------------------------------------------------------------------------
(* Properties *)

Received == fn # "none" /\ response.state = "received"

Contains(message, part) == \E i \in DOMAIN message : message[i] = part

\* how many fetch calls the wrapper made
Fetches == Cardinality({i \in DOMAIN trace : trace[i] = EvFetch})

NeedsUser == {"deleteReadingList", "addBookToReadingList", "removeBookFromReadingList"}

\* the wrappers whose error reports the status and the response text
Detailed == {"getRecommendations", "getReadingLists", "deleteReadingList",
             "addBookToReadingList", "removeBookFromReadingList"}

\* the wrappers that return response.json() as it is
Verbatim == {"getBooks", "getBook", "createBook", "updateBook", "getReadingLists",
             "createReadingList", "updateReadingList", "addBookToReadingList",
             "removeBookFromReadingList"}

\* C1 as claimed: whenever no operation of the holder is in flight, user is
\* non-null if and only if the SDK has a signed-in session.
C1_UserMirrorsSession ==
    ~InFlight => ((user # Null) <=> (sdkSession # NoSession))

\* C2 as claimed: isLoading is true if and only if at least one of checkAuth,
\* login, logout, signup has started and not finished.
C2_LoadingIffInFlight ==
    isLoading <=> InFlight

\* C3 as claimed: every wrapper throws whenever the response has a
\* non-success status.
C3_ThrowsOnEveryNonOk ==
    (Received /\ ~ok(response)) => result.kind = "threw"

\* C3 amended: every wrapper throws whenever the response has a non-success
\* status, except getBook on status 404, which returns null.
C3_ThrowsOnNonOkBut404 ==
    (Received /\ ~ok(response)) =>
        IF fn = "getBook" /\ response.status = 404
        THEN result = Returned(JNull)
        ELSE result.kind = "threw" /\ result.error.name = "Error"

C3_Witness ==
    /\ fn = "getBooks"
    /\ Received
    /\ response.status = 500
    /\ result.kind = "threw"

\* C4 as claimed: on a success status every wrapper returns the parsed JSON
\* body of the response verbatim.
C4_ReturnsBodyVerbatim ==
    (Received /\ ok(response) /\ response.json # NotJSON) =>
        result = Returned(response.json)

\* C4 amended: on a success status with a body that parses, the wrappers of
\* Verbatim return the parsed body as it is; deleteBook and deleteReadingList
\* return nothing; getRecommendations, unless the body is null, returns one
\* record per element of the body's recommendations array (none when the body
\* has no such field), the i-th (from 0) with id bedrock-i, bookId unknown-i,
\* the element's title and author, its reason unless empty (then
\* "<title> by <author> - "), and its confidence unless 0 (then 0.8).
C4_ReturnsBodyOrFormatted ==
    (Received /\ ok(response) /\ response.json # NotJSON) =>
        /\ fn \in Verbatim => result = Returned(response.json)
        /\ fn \in {"deleteBook", "deleteReadingList"} => result = Returned(JUndefined)
        /\ (fn = "getRecommendations" /\ response.json = JNull) => result.kind = "threw"
        /\ (fn = "getRecommendations" /\ response.json # JNull) =>
             LET data == response.json
                 recs == IF data.t = "object" /\ "recommendations" \in DOMAIN data.f
                         THEN data.f.recommendations ELSE <<>>
                 out == result.value
             IN /\ result.kind = "returned"
                /\ out.t = "array"
                /\ Len(out.items) = Len(recs)
                /\ \A i \in 1..Len(recs) :
                     /\ out.items[i].id = "bedrock-" \o ToString(i - 1)
                     /\ out.items[i].bookId = "unknown-" \o ToString(i - 1)
                     /\ out.items[i].title = recs[i].title
                     /\ out.items[i].author = recs[i].author
                     /\ out.items[i].reason =
                            IF recs[i].reason = ""
                            THEN recs[i].title \o " by " \o recs[i].author \o " - "
                            ELSE recs[i].reason
                     /\ out.items[i].confidence =
                            IF recs[i].confidence = 0 THEN 8 ELSE recs[i].confidence

C4_Witness ==
    /\ fn = "getRecommendations"
    /\ Received
    /\ ok(response)
    /\ result.kind = "returned"
    /\ Len(result.value.items) = 2
    /\ result.value.items[2].confidence = 8
    /\ result.value.items[1].reason = "why"

\* C5 as claimed: every call of a wrapper makes exactly one fetch, after the
\* headers have been obtained, whatever the SDK calls' outcomes.
C5_ExactlyOneFetch ==
    fn # "none" =>
        /\ Fetches = 1
        /\ Len(requests) = 1
        /\ \A i \in DOMAIN trace :
             trace[i] = EvFetch => \E j \in 1..(i - 1) : trace[j] = EvSession

\* C5 amended: every call of a wrapper makes at most one fetch, after the
\* headers have been obtained, and never a second one; it makes exactly one
\* unless getCurrentUser fails in deleteReadingList, addBookToReadingList or
\* removeBookFromReadingList, which then make none.
C5_AtMostOneFetch ==
    fn # "none" =>
        /\ Fetches <= 1
        /\ Len(requests) = Fetches
        /\ Fetches = 0 <=> (fn \in NeedsUser /\ currentUser.state = "failed")
        /\ \A i \in DOMAIN trace :
             trace[i] = EvFetch => \E j \in 1..(i - 1) : trace[j] = EvSession

C5_Witness ==
    /\ fn = "createBook"
    /\ response.state = "networkError"
    /\ result.kind = "threw"
    /\ Fetches = 1

\* C6 as claimed: for every wrapper and every non-success response, the error
\* thrown contains the response's status code and body text.
C6_ErrorCarriesStatusAndText ==
    (Received /\ ~ok(response)) =>
        /\ result.kind = "threw"
        /\ Contains(result.error.message, ToString(response.status))
        /\ Contains(result.error.message, response.text)

\* C6 amended: on a non-success response the error thrown by
\* getRecommendations, getReadingLists, deleteReadingList,
\* addBookToReadingList and removeBookFromReadingList contains the status
\* code and the body text; the error thrown by the other wrappers is a fixed
\* message with neither.
C6_DetailedErrorsCarryStatusAndText ==
    (Received /\ ~ok(response) /\ result.kind = "threw") =>
        IF fn \in Detailed
        THEN /\ Contains(result.error.message, ToString(response.status))
             /\ Contains(result.error.message, response.text)
        ELSE /\ Len(result.error.message) = 1
             /\ ~Contains(result.error.message, ToString(response.status))
             /\ ~Contains(result.error.message, response.text)

C6_Witness ==
    /\ fn = "getReadingLists"
    /\ Received
    /\ response.status = 500
    /\ result.kind = "threw"
    /\ Contains(result.error.message, "500")

\* C7 as claimed: whenever the SDK call made by login, logout or signup
\* fails, the promise returned by the operation rejects.
C7_FailuresReject ==
    (lastDone.kind \in {"login", "logout", "signup"} /\ lastDone.sdkFailed) =>
        lastDone.settled = "rejected"

\* the path of a URL under the base URL: its parts up to the query string
Path(url) ==
    LET q == {i \in DOMAIN url : url[i] = "?userId="}
        last == IF q = {} THEN Len(url) ELSE (CHOOSE i \in q : \A j \in q : i <= j) - 1
    IN SubSeq(url, 2, last)

\* the method and path of each operation, as the specification lists them
Endpoint(name, a) ==
    CASE name = "getBooks"                  -> <<"GET", <<"/books">>>>
      [] name = "getBook"                   -> <<"GET", <<"/books/", a.id>>>>
      [] name = "createBook"                -> <<"POST", <<"/books">>>>
      [] name = "updateBook"                -> <<"PUT", <<"/books/", a.id>>>>
      [] name = "deleteBook"                -> <<"DELETE", <<"/books/", a.id>>>>
      [] name = "getRecommendations"        -> <<"POST", <<"/recommendations">>>>
      [] name = "getReadingLists"           -> <<"GET", <<"/reading-lists">>>>
      [] name = "createReadingList"         -> <<"POST", <<"/reading-lists">>>>
      [] name = "updateReadingList"         -> <<"PUT", <<"/reading-lists/", a.id>>>>
      [] name = "deleteReadingList"         -> <<"DELETE", <<"/reading-lists/", a.id>>>>
      [] name = "addBookToReadingList"      -> <<"PUT", <<"/reading-lists/", a.id>>>>
      [] name = "removeBookFromReadingList" -> <<"PUT", <<"/reading-lists/", a.id>>>>

\* C8: every request issued by a wrapper goes to the configured base URL with
\* the method and path of the wrapper's operation, :id being the id argument.
C8_MethodAndPath ==
    \A k \in DOMAIN requests :
        /\ requests[k].url[1] = API_BASE_URL
        /\ <<requests[k].method, Path(requests[k].url)>> = Endpoint(fn, args)

C8_Witness ==
    /\ fn = "updateBook"
    /\ args.id = "id2"
    /\ Len(requests) = 1
    /\ requests[1].method = "PUT"

\* C9: every request carries Content-Type: application/json, and carries
\* Authorization: Bearer <token> exactly when the session lookup yielded an id
\* token, <token> being that token; a failing or token-less lookup does not
\* make the call fail: the request is issued, without Authorization.
C9_BearerHeaders ==
    /\ \A k \in DOMAIN requests :
         LET h == requests[k].headers IN
         /\ "Content-Type" \in DOMAIN h
         /\ h["Content-Type"] = "application/json"
         /\ "Authorization" \in DOMAIN h <=> session.state = "token"
         /\ session.state = "token" => h["Authorization"] = "Bearer " \o session.token
    /\ session.state \in {"failed", "noToken"} =>
         /\ Len(requests) = 1
         /\ DOMAIN requests[1].headers = {"Content-Type"}
         /\ result.kind = "threw" =>
              \/ response.state = "networkError"
              \/ ~ok(response)
              \/ response.json \in {NotJSON, JNull}

C9_Witness ==
    /\ fn = "getBooks"
    /\ session.state = "token"
    /\ session.token = "tokB"
    /\ Len(requests) = 1
    /\ "Authorization" \in DOMAIN requests[1].headers

\* the userId a request of deleteReadingList, addBookToReadingList or
\* removeBookFromReadingList sends: in the query string or in the body
SentUserId(name, req) ==
    IF name = "deleteReadingList"
    THEN LET q == {i \in DOMAIN req.url : req.url[i] = "?userId="}
         IN IF q = {} THEN "<none>" ELSE req.url[(CHOOSE i \in q : TRUE) + 1]
    ELSE req.body.of.userId

\* C10: deleteReadingList, addBookToReadingList and removeBookFromReadingList
\* call getCurrentUser first; when it fails the call throws that error, with
\* no headers obtained and no request issued; when it succeeds the userId sent
\* is the userId of the resolved user.
C10_UserResolvedFirst ==
    fn \in NeedsUser =>
        /\ trace[1] = EvUser
        /\ currentUser.state = "failed" =>
             /\ result = Threw(AuthError)
             /\ trace = <<EvUser>>
             /\ requests = <<>>
        /\ currentUser.state = "ok" =>
             /\ Len(requests) = 1
             /\ SentUserId(fn, requests[1]) = currentUser.userId

C10_Witness ==
    /\ fn = "deleteReadingList"
    /\ currentUser.state = "failed"
    /\ result.kind = "threw"
    /\ requests = <<>>
====
